---- MODULE Spec2Model ----
(***************************************************************************)
(* Model of apps/server/src/routes/python_redis.py: a sequential script    *)
(* that issues a fixed list of commands to a remote key-value store.       *)
(* The store is modelled with the command semantics of the server the      *)
(* client talks to (typed keys, WRONGTYPE errors, containers that vanish   *)
(* when deleted), the script as a program counter over its statements.     *)
(***************************************************************************)
EXTENDS Integers, Sequences, FiniteSets, TLC

\* ---------------------------------------------------------------- bounds
MaxLen == 2        \* longest list already stored under the log key
MaxRuns == 2       \* how many times the script is started in succession

\* ------------------------------------------------------ program literals
UserKey == "help:user:demo"
QueueKey == "help:queue:priority"
LogKey == "help:ticket:demo:log"
OtherKey == "help:other"          \* a key of the same database the script never names

DemoKeys == {UserKey, QueueKey, LogKey}
Keys == DemoKeys \cup {OtherKey}

CreateMapping == [name |-> "Ali Demo", email |-> "demo@example.com"]
UpdateMapping == [name |-> "Ali Updated"]
TicketMember == "ticket:demo"
Priority == 10
CreatedEntry == "Ticket created by Ali Demo"
UpdatedEntry == "Name updated to Ali Updated"

\* ------------------------------------------------------- store contents
Fields == {"name", "email", "phone"}
Members == {"ticket:demo", "ticket:other"}
\* byte-wise order of member names, used to break score ties
LexRank == [m \in Members |-> IF m = "ticket:demo" THEN 1 ELSE 2]
InitScores == {Priority - 5, Priority, Priority + 10}
OldValue == "old"
OldEntry == "old entry"

NoFields == [f \in {} |-> ""]
Nil == "(nil)"

Absent == [type |-> "none", hash |-> NoFields, zset |-> NoFields, list |-> <<>>, str |-> ""]
HashVal(h) == [Absent EXCEPT !.type = "hash", !.hash = h]
ZSetVal(z) == [Absent EXCEPT !.type = "zset", !.zset = z]
ListVal(l) == [Absent EXCEPT !.type = "list", !.list = l]
StrVal(v) == [Absent EXCEPT !.type = "string", !.str = v]

InitHashes == UNION {[S -> {OldValue}] : S \in (SUBSET Fields) \ {{}}}
InitZSets == UNION {[S -> InitScores] : S \in (SUBSET Members) \ {{}}}
InitLists == UNION {[1..n -> {OldEntry}] : n \in 1..MaxLen}

\* what the database may hold when the script starts
InitStores ==
    {s \in [Keys -> {Absent, StrVal(OldValue)}
                     \cup {HashVal(h) : h \in InitHashes}
                     \cup {ZSetVal(z) : z \in InitZSets}
                     \cup {ListVal(l) : l \in InitLists}] :
        /\ s[UserKey].type \in {"none", "string", "hash"}
        /\ s[QueueKey].type \in {"none", "string", "zset"}
        /\ s[LogKey].type \in {"none", "string", "list"}
        /\ s[OtherKey].type \in {"none", "string"}}

\* ------------------------------------------------------- store commands
Range(q) == {q[i] : i \in 1..Len(q)}

\* faulty variants of the commands, used to test the properties below
hset_nx(s, name, mapping) ==            \* fields already set keep their value
    LET old == s[name].hash
        new == [f \in (DOMAIN old) \cup (DOMAIN mapping) |->
                    IF f \in DOMAIN old THEN old[f] ELSE mapping[f]]
    IN  [s EXCEPT ![name] = HashVal(new)]

hset_replace(s, name, mapping) ==       \* the mapping replaces the whole hash
    [s EXCEPT ![name] = HashVal(mapping)]

zadd_nx(s, name, mapping) ==            \* members already scored keep their score
    LET old == s[name].zset
        new == [m \in (DOMAIN old) \cup (DOMAIN mapping) |->
                    IF m \in DOMAIN old THEN old[m] ELSE mapping[m]]
    IN  [s EXCEPT ![name] = ZSetVal(new)]

lpush(s, name, value) ==                \* pushes at the head
    [s EXCEPT ![name] = ListVal(<<value>> \o s[name].list)]

delete_first(s, names) ==               \* only the first name is removed
    [k \in DOMAIN s |-> IF k = names[1] THEN Absent ELSE s[k]]

delete_nothing(s, names) == s           \* the names never reach the server

flushdb(s, names) ==                    \* every key of the database is removed
    [k \in DOMAIN s |-> Absent]

\* HSET key field value [field value ...]
hset(s, name, mapping) ==
    LET old == s[name].hash
        new == [f \in (DOMAIN old) \cup (DOMAIN mapping) |->
                    IF f \in DOMAIN mapping THEN mapping[f] ELSE old[f]]
    IN  [s EXCEPT ![name] = HashVal(new)]

\* ZADD key score member
zadd(s, name, mapping) ==
    LET old == s[name].zset
        new == [m \in (DOMAIN old) \cup (DOMAIN mapping) |->
                    IF m \in DOMAIN mapping THEN mapping[m] ELSE old[m]]
    IN  [s EXCEPT ![name] = ZSetVal(new)]

\* RPUSH key value
rpush(s, name, value) ==
    [s EXCEPT ![name] = ListVal(Append(s[name].list, value))]

\* DEL key [key ...]
delete(s, names) ==
    [k \in DOMAIN s |-> IF k \in Range(names) THEN Absent ELSE s[k]]

\* HGETALL key, decoded to a dict
hgetall(s, name) == s[name].hash

\* HGET key field
hget(s, name, key) ==
    IF key \in DOMAIN s[name].hash THEN s[name].hash[key] ELSE Nil

\* start/end of a range command, negative indexes counting from the end
Slice(q, start, end) ==
    LET n == Len(q)
        lo == IF start < 0 THEN (IF n + start < 0 THEN 0 ELSE n + start) ELSE start
        hi == IF end < 0 THEN n + end ELSE (IF end >= n THEN n - 1 ELSE end)
    IN  IF lo > hi \/ lo >= n THEN <<>> ELSE SubSeq(q, lo + 1, hi + 1)

\* LRANGE key start end
lrange(s, name, start, end) == Slice(s[name].list, start, end)

\* entry a is served before entry b in a descending read
Before(a, b) ==
    \/ a[2] > b[2]
    \/ a[2] = b[2] /\ LexRank[a[1]] > LexRank[b[1]]

\* ZREVRANGE key start end WITHSCORES
zrevrange(s, name, start, end) ==
    LET z == s[name].zset
        entries == {<<m, z[m]>> : m \in DOMAIN z}
        n == Cardinality(entries)
        sorted == CHOOSE q \in [1..n -> entries] :
                      \A i, j \in 1..n : i < j => Before(q[i], q[j])
    IN  Slice(sorted, start, end)

\* ------------------------------------------------------------ the script
\* the statements that call the client, by the command they send
Labels == {"ping", "hset_create", "zadd", "rpush_create", "hgetall", "zrevrange",
           "lrange", "hset_update", "rpush_update", "hget", "delete"}

\* faulty variants of the control flow, used to test the properties below
SuccUpdateFirst(label) ==               \* the update section runs before the reads
    CASE label = "connect"      -> "ping"
      [] label = "ping"         -> "hset_create"
      [] label = "hset_create"  -> "zadd"
      [] label = "zadd"         -> "rpush_create"
      [] label = "rpush_create" -> "hset_update"
      [] label = "hset_update"  -> "rpush_update"
      [] label = "rpush_update" -> "hgetall"
      [] label = "hgetall"      -> "zrevrange"
      [] label = "zrevrange"    -> "lrange"
      [] label = "lrange"       -> "hget"
      [] label = "hget"         -> "delete"
      [] label = "delete"       -> "exit"

OnErrorRetry(label) == label            \* the failing statement is run again

ExitStatusZero(raised) == 0             \* the exception is swallowed

\* the statement executed after `label` returns: the module top level is
\* straight-line code
Succ(label) ==
    CASE label = "connect"      -> "ping"
      [] label = "ping"         -> "hset_create"
      [] label = "hset_create"  -> "zadd"
      [] label = "zadd"         -> "rpush_create"
      [] label = "rpush_create" -> "hgetall"
      [] label = "hgetall"      -> "zrevrange"
      [] label = "zrevrange"    -> "lrange"
      [] label = "lrange"       -> "hset_update"
      [] label = "hset_update"  -> "rpush_update"
      [] label = "rpush_update" -> "hget"
      [] label = "hget"         -> "delete"
      [] label = "delete"       -> "exit"

\* where control goes when the statement at `label` raises: nothing catches
\* it, the interpreter prints the traceback and the process ends
OnError(label) == "halted"

\* exit status of the interpreter
ExitStatus(raised) == IF raised THEN 1 ELSE 0

\* the key a command addresses and the type it needs there
KeyOf(label) ==
    CASE label \in {"hset_create", "hgetall", "hset_update", "hget"} -> UserKey
      [] label \in {"zadd", "zrevrange"}                            -> QueueKey
      [] label \in {"rpush_create", "lrange", "rpush_update"}       -> LogKey
      [] OTHER                                                      -> OtherKey

TypeOf(label) ==
    CASE label \in {"hset_create", "hgetall", "hset_update", "hget"} -> "hash"
      [] label \in {"zadd", "zrevrange"}                            -> "zset"
      [] label \in {"rpush_create", "lrange", "rpush_update"}       -> "list"
      [] OTHER                                                      -> "none"

\* the server answers WRONGTYPE and changes nothing
WrongType(s, label) ==
    /\ label \notin {"ping", "delete"}
    /\ s[KeyOf(label)].type \notin {"none", TypeOf(label)}

\* the store after the server has executed the command of `label`
Apply(s, label) ==
    CASE WrongType(s, label)     -> s
      [] label = "hset_create"  -> hset(s, UserKey, CreateMapping)
      [] label = "zadd"         -> zadd(s, QueueKey, (TicketMember :> Priority))
      [] label = "rpush_create" -> rpush(s, LogKey, CreatedEntry)
      [] label = "hset_update"  -> hset(s, UserKey, UpdateMapping)
      [] label = "rpush_update" -> rpush(s, LogKey, UpdatedEntry)
      [] label = "delete"       -> delete(s, <<UserKey, QueueKey, LogKey>>)
      [] OTHER                  -> s

NoOut == [ping |-> FALSE, hgetall |-> NoFields, zrevrange |-> <<>>,
          lrange |-> <<>>, hget |-> Nil]

\* what the script prints from the reply of `label`
Printed(o, s, label) ==
    CASE label = "ping"      -> [o EXCEPT !.ping = TRUE]
      [] label = "hgetall"   -> [o EXCEPT !.hgetall = hgetall(s, UserKey)]
      [] label = "zrevrange" -> [o EXCEPT !.zrevrange = zrevrange(s, QueueKey, 0, -1)]
      [] label = "lrange"    -> [o EXCEPT !.lrange = lrange(s, LogKey, 0, -1)]
      [] label = "hget"      -> [o EXCEPT !.hget = hget(s, UserKey, "name")]
      [] OTHER               -> o

Snapshot(s) == [k \in DemoKeys |-> s[k]]

VARIABLES
    store,      \* the database: key -> value
    env,        \* "ok", "unreachable" or "badauth": what a connection attempt meets
    pc,         \* the statement the process is at, "done" or "halted"
    run,        \* number of the current run of the script
    start,      \* start[i]: the database when run i started
    issued,     \* this run's commands the server received, in order
    returned,   \* this run's calls that returned normally, in order
    out,        \* this run's printed replies
    error,      \* the exception that ended this run, or "none"
    exitCode,   \* the process's exit status, -1 while it runs
    preDelete   \* preDelete[i]: the three keys when run i's delete was received

vars == <<store, env, pc, run, start, issued, returned, out, error, exitCode, preDelete>>

store0 == start[run]

Init ==
    /\ store \in InitStores
    /\ env \in {"ok", "unreachable", "badauth"}
    /\ pc = "connect"
    /\ run = 1
    /\ start = <<store>>
    /\ issued = <<>>
    /\ returned = <<>>
    /\ out = NoOut
    /\ error = "none"
    /\ exitCode = -1
    /\ preDelete = <<>>

Raise(label, exc) ==
    /\ error' = exc
    /\ pc' = OnError(label)
    /\ exitCode' = ExitStatus(TRUE)
    /\ UNCHANGED <<returned, out>>

Received(label) ==
    /\ issued' = Append(issued, label)
    /\ store' = Apply(store, label)
    /\ preDelete' = IF label = "delete" THEN Append(preDelete, Snapshot(store))
                                        ELSE preDelete

\* one blocking client call: the reply arrives and the script goes on, or the
\* call raises
Call(label) ==
    /\ pc = label
    /\ UNCHANGED <<env, run, start>>
    /\ \/ /\ ~WrongType(store, label)
          /\ Received(label)
          /\ returned' = Append(returned, label)
          /\ out' = Printed(out, store, label)
          /\ pc' = Succ(label)
          /\ UNCHANGED <<error, exitCode>>
       \/ /\ WrongType(store, label)
          /\ Received(label)
          /\ Raise(label, "ResponseError")
       \/ /\ UNCHANGED <<store, issued, preDelete>>       \* the request is lost
          /\ Raise(label, "ConnectionError")
       \/ /\ Received(label)                              \* the reply is lost
          /\ Raise(label, "ConnectionError")

\* line 4: the constructor stores the parameters; no I/O happens
Connect ==
    /\ pc = "connect"
    /\ pc' = Succ("connect")
    /\ UNCHANGED <<store, env, run, start, issued, returned, out, error, exitCode, preDelete>>

\* line 11: the first command opens the socket and authenticates, then pings
Ping ==
    \/ /\ pc = "ping"
       /\ env = "unreachable"
       /\ Raise("ping", "ConnectionError")
       /\ UNCHANGED <<store, env, run, start, issued, preDelete>>
    \/ /\ pc = "ping"
       /\ env = "badauth"
       /\ Raise("ping", "AuthenticationError")
       /\ UNCHANGED <<store, env, run, start, issued, preDelete>>
    \/ /\ env = "ok"
       /\ Call("ping")

HSetCreate ==
    /\ pc = "hset_create"
    /\ Call("hset_create")

ZAdd ==
    /\ pc = "zadd"
    /\ Call("zadd")

RPushCreate ==
    /\ pc = "rpush_create"
    /\ Call("rpush_create")

HGetAll ==
    /\ pc = "hgetall"
    /\ Call("hgetall")

ZRevRange ==
    /\ pc = "zrevrange"
    /\ Call("zrevrange")

LRange ==
    /\ pc = "lrange"
    /\ Call("lrange")

HSetUpdate ==
    /\ pc = "hset_update"
    /\ Call("hset_update")

RPushUpdate ==
    /\ pc = "rpush_update"
    /\ Call("rpush_update")

HGet ==
    /\ pc = "hget"
    /\ Call("hget")

Delete ==
    /\ pc = "delete"
    /\ Call("delete")


\* lines 31-33: the last prints, then the interpreter exits
Exit ==
    /\ pc = "exit"
    /\ pc' = "done"
    /\ exitCode' = ExitStatus(FALSE)
    /\ UNCHANGED <<store, env, run, start, issued, returned, out, error, preDelete>>

\* the script is started again after a run that completed
Rerun ==
    /\ pc = "done"
    /\ run < MaxRuns
    /\ run' = run + 1
    /\ start' = Append(start, store)
    /\ pc' = "connect"
    /\ issued' = <<>>
    /\ returned' = <<>>
    /\ out' = NoOut
    /\ error' = "none"
    /\ exitCode' = -1
    /\ UNCHANGED <<store, env, preDelete>>

Step ==
    \/ Connect \/ Ping
    \/ HSetCreate \/ ZAdd \/ RPushCreate
    \/ HGetAll \/ ZRevRange \/ LRange
    \/ HSetUpdate \/ RPushUpdate \/ HGet
    \/ Delete \/ Exit

Next == Step \/ Rerun

Spec == Init /\ [][Next]_vars

\* blocking calls return or raise, and the interpreter runs the next statement
FairSpec == Spec /\ WF_vars(Step)

\* ------------------------------------------------------------ properties
Returned(label) == label \in Range(returned)
DeleteReceived == "delete" \in Range(issued)
IsPrefix(p, q) == Len(p) <= Len(q) /\ p = SubSeq(q, 1, Len(p))
Gone(s) == \A k \in DemoKeys : s[k] = Absent

\* C1: once the batched delete has been applied, none of the three keys
\* exists in the store, whatever the store held before.
C1_KeysAbsentAfterDelete == DeleteReceived => Gone(store)

C1_Witness ==
    /\ pc = "done"
    /\ \A k \in DemoKeys : store0[k] # Absent
    /\ Gone(store)

\* C2 as stated: after a run that completed, the store equals the store
\* before the run, for every initial content.
C2_StoreRestored == pc = "done" => store = store0

\* C2 amended: after a run that completed, the store is the store before the
\* run with the three keys removed; it equals the store before the run exactly
\* when none of the three keys existed then.
C2_StoreMinusKeys ==
    pc = "done" =>
        /\ store = [k \in Keys |-> IF k \in DemoKeys THEN Absent ELSE store0[k]]
        /\ (store = store0) <=> Gone(store0)

C2_Witness ==
    /\ pc = "done"
    /\ store0[UserKey].type = "hash"
    /\ store0[OtherKey].type = "string"
    /\ store # store0

\* C3 as stated: the whole-hash read after the step-3 write returns exactly
\* the two-field mapping, for every initial content.
C3_ExactMapping == Returned("hgetall") => out.hgetall = CreateMapping

\* C3 amended: the whole-hash read returns name and email with the written
\* values, together with every other field the hash held when the run
\* started, unchanged; it is exactly the two-field mapping when the hash held
\* no other field (in particular when the key was absent).
C3_MappingMerged ==
    Returned("hgetall") =>
        LET old == store0[UserKey].hash
            got == out.hgetall
        IN  /\ DOMAIN got = (DOMAIN old) \cup {"name", "email"}
            /\ got["name"] = "Ali Demo"
            /\ got["email"] = "demo@example.com"
            /\ \A f \in (DOMAIN old) \ {"name", "email"} : got[f] = old[f]
            /\ (DOMAIN old \subseteq {"name", "email"}) => got = CreateMapping

C3_Witness ==
    /\ Returned("hgetall")
    /\ {"name", "phone"} \subseteq DOMAIN store0[UserKey].hash
    /\ out.hgetall["phone"] = OldValue

\* C4: after the step-7 single-field write the name field reads "Ali Updated"
\* and email, like every other field, holds what it held before the write.
C4_UpdateNameOnly ==
    /\ Returned("hget") => out.hget = "Ali Updated"
    /\ (Returned("hset_update") /\ ~DeleteReceived) =>
          LET h == store[UserKey].hash
          IN  /\ DOMAIN h = DOMAIN out.hgetall
              /\ {"name", "email"} \subseteq DOMAIN h
              /\ h["name"] = "Ali Updated"
              /\ h["email"] = "demo@example.com"
              /\ \A f \in (DOMAIN h) \ {"name"} : h[f] = out.hgetall[f]

C4_Witness ==
    /\ Returned("hget")
    /\ ~DeleteReceived
    /\ out.hget = "Ali Updated"
    /\ out.hgetall["name"] = "Ali Demo"
    /\ "phone" \in DOMAIN store[UserKey].hash
    /\ store[UserKey].hash["email"] = "demo@example.com"

\* C5 as stated: after both appends and before the delete the log holds
\* exactly the two appended entries, for every initial content.
C5_ExactLog ==
    (Returned("rpush_update") /\ ~DeleteReceived) =>
        store[LogKey].list = <<CreatedEntry, UpdatedEntry>>

\* C5 amended: after both appends and before the delete the log is the log
\* of the start of the run followed by the two appended entries, in that
\* order; exactly the two entries when the log key was absent.
C5_LogAppended ==
    (Returned("rpush_update") /\ ~DeleteReceived) =>
        /\ store[LogKey].list = store0[LogKey].list \o <<CreatedEntry, UpdatedEntry>>
        /\ store0[LogKey] = Absent => store[LogKey].list = <<CreatedEntry, UpdatedEntry>>

C5_Witness ==
    /\ Returned("rpush_update")
    /\ ~DeleteReceived
    /\ Len(store0[LogKey].list) >= 1
    /\ Len(store[LogKey].list) >= 3

\* C6 as stated: the descending read after the step-4 add returns exactly one
\* entry, ("ticket:demo", 10), for every initial content.
C6_ExactlyOneEntry ==
    Returned("zrevrange") => out.zrevrange = << <<TicketMember, Priority>> >>

\* C6 amended: the descending read returns "ticket:demo" exactly once, with
\* score 10 whatever score it had, together with every other member the set
\* held when the run started, at its old score, in descending order of score;
\* exactly the one entry when the set held no other member.
C6_MemberOnceScoreTen ==
    Returned("zrevrange") =>
        LET old == store0[QueueKey].zset
            got == out.zrevrange
            others == (DOMAIN old) \ {TicketMember}
        IN  /\ Range(got) = {<<TicketMember, Priority>>} \cup {<<m, old[m]>> : m \in others}
            /\ Len(got) = 1 + Cardinality(others)
            /\ \A i, j \in 1..Len(got) : i < j => got[i][2] >= got[j][2]
            /\ others = {} => got = << <<TicketMember, Priority>> >>

C6_Witness ==
    /\ Returned("zrevrange")
    /\ DOMAIN store0[QueueKey].zset = Members
    /\ store0[QueueKey].zset[TicketMember] # Priority
    /\ Len(out.zrevrange) = 2

\* the three keys after a run on a database that did not hold them
CleanFinal ==
    [k \in DemoKeys |->
        CASE k = UserKey  -> HashVal([name |-> "Ali Updated", email |-> "demo@example.com"])
          [] k = QueueKey -> ZSetVal((TicketMember :> Priority))
          [] k = LogKey   -> ListVal(<<CreatedEntry, UpdatedEntry>>)]

\* C7 as stated: when the script runs twice in succession, the three keys
\* just before the second run's delete equal the three keys just before the
\* first run's delete.
C7_SameAsFirstRun == Len(preDelete) >= 2 => preDelete[2] = preDelete[1]

\* C7 amended: just before the delete of a run that follows a completed run
\* the hash holds exactly name and email, the set one member and the log
\* exactly that run's two entries; this equals the first run's contents just
\* before its delete when the three keys were absent at the start of the
\* first run.
C7_SecondRunClean ==
    \A i \in 2..Len(preDelete) :
        /\ preDelete[i] = CleanFinal
        /\ Gone(start[1]) => preDelete[i] = preDelete[1]

C7_Witness ==
    /\ Len(preDelete) = 2
    /\ Len(start[1][LogKey].list) >= 1
    /\ Len(preDelete[1][LogKey].list) >= 3
    /\ Len(preDelete[2][LogKey].list) = 2

\* the order of the commands, as the specification lists them
ClaimedOrder ==
    <<"ping", "hset_create", "zadd", "rpush_create", "hgetall", "zrevrange",
      "lrange", "hset_update", "rpush_update", "hget", "delete">>

Created(label, k, type) ==
    (Returned(label) /\ ~DeleteReceived) => store[k].type = type

C8_Halted ==
    error # "none" =>
        /\ pc = "halted"
        /\ IsPrefix(returned, ClaimedOrder)
        /\ Len(returned) < Len(ClaimedOrder)
        /\ issued \in {returned, Append(returned, ClaimedOrder[Len(returned) + 1])}
        /\ Created("hset_create", UserKey, "hash")
        /\ (Returned("hset_create") /\ ~DeleteReceived) =>
              {"name", "email"} \subseteq DOMAIN store[UserKey].hash
        /\ Created("zadd", QueueKey, "zset")
        /\ Created("rpush_create", LogKey, "list")

C8_FailingStep ==
    /\ error # "none" => UNCHANGED vars
    /\ (error = "none" /\ error' # "none") =>
          /\ returned' = returned
          /\ \/ issued' = issued /\ store' = store
             \/ issued' = Append(issued, pc) /\ store' \in {store, Apply(store, pc)}

\* C8: when a command fails the script halts there: the command is not sent
\* again, no later command is sent, and the failing step undoes nothing the
\* earlier commands wrote, so the keys created before the failure stay.
C8_HaltNoRetryNoRollback == []C8_Halted /\ [][C8_FailingStep]_vars

C8_Witness ==
    /\ error = "ResponseError"
    /\ returned = <<"ping", "hset_create">>
    /\ issued = <<"ping", "hset_create", "zadd">>
    /\ store0[UserKey] = Absent
    /\ store[UserKey] = HashVal(CreateMapping)

C9_State ==
    /\ env # "ok" =>
          /\ issued = <<>>
          /\ store = store0
          /\ pc \in {"connect", "ping", "halted"}
          /\ pc = "halted" => exitCode > 0
    /\ pc = "done" => exitCode = 0
    /\ pc = "halted" => exitCode > 0

\* C9: against an unreachable store or a rejected credential the script ends
\* with a non-zero status before any command reaches the store, which stays
\* as it was; a run that completes every step ends with status 0.
C9_ConnectFailure == []C9_State /\ ((env # "ok") ~> (pc = "halted"))

C9_Witness ==
    /\ env = "badauth"
    /\ pc = "halted"
    /\ error = "AuthenticationError"
    /\ exitCode = 1
    /\ store[UserKey].type = "hash"

\* C10 as stated: the step-6 reads see name "Ali Demo" and a log of one entry.
C10_ReadsSeeOneEntry ==
    Returned("lrange") => (out.hgetall["name"] = "Ali Demo" /\ Len(out.lrange) = 1)

C10_Order ==
    /\ IsPrefix(issued, ClaimedOrder)
    /\ IsPrefix(returned, issued)
    /\ pc \in {"exit", "done"} => returned = ClaimedOrder
    /\ Returned("lrange") =>
          /\ out.hgetall["name"] = "Ali Demo"
          /\ out.lrange = Append(store0[LogKey].list, CreatedEntry)
          /\ store0[LogKey] = Absent => Len(out.lrange) = 1

C10_Delete ==
    /\ (\E k \in DemoKeys : store[k] # Absent /\ store'[k] = Absent) =>
          (pc = "delete" /\ Gone(store'))
    /\ DeleteReceived => store' = store

\* C10 amended: the commands reach the store in the one listed order, each at
\* most once and all of them in a run without failure, and every run ends; the
\* step-6 reads see the state before the update: name "Ali Demo" and the log
\* of the start of the run followed by the creation entry alone (one entry
\* when the log key was absent); nothing is written after the delete; the one
\* delete removes the three keys in a single step.
C10_FixedOrder ==
    /\ []C10_Order
    /\ [][C10_Delete]_vars
    /\ [](pc = "connect" => <>(pc \in {"done", "halted"}))

C10_Witness ==
    /\ pc = "done"
    /\ returned = ClaimedOrder
    /\ Len(out.lrange) >= 2
    /\ out.hgetall["name"] = "Ali Demo"
    /\ Gone(store)

====
